---- MODULE Spec2Model ----
(***************************************************************************)
(* A model of ampligraph/discovery/discovery.py: the composite             *)
(* set-difference _setdiff2d, the candidate generator generate_candidates  *)
(* (a Python generator: its body runs on the pulls), and the discovery     *)
(* pipeline discover_facts.                                                *)
(*                                                                         *)
(* A 2-dimensional array is a sequence of rows, a row a sequence of        *)
(* fields; a triple is the row <<subject, relation, object>>.  Entity and  *)
(* relation identifiers are strings, as in the docstrings' examples.       *)
(***************************************************************************)
EXTENDS Integers, Sequences, FiniteSets, TLC

VARIABLES
    A, B, sdCall,              \* _setdiff2d: its two arguments and its call
    X, model, top_n, strategy, max_candidates, target_rel,
    consolidate_sides, seed,   \* the parameters of discover_facts / generate_candidates
    rng,                       \* the process-wide state of np.random
    gen,                       \* the generator objects of generate_candidates
    pc, X_filtered, rel_list, relation, candidates, ranks,
    discoveries, evalCalls, result, err   \* the call of discover_facts

vars == <<A, B, sdCall, X, model, top_n, strategy, max_candidates, target_rel,
          consolidate_sides, seed, rng, gen, pc, X_filtered, rel_list,
          relation, candidates, ranks, discoveries, evalCalls, result, err>>

setdiffVars == <<A, B, sdCall>>
paramVars == <<X, model, top_n, strategy, max_candidates, target_rel,
               consolidate_sides, seed>>
discoverVars == <<pc, X_filtered, rel_list, relation, candidates, ranks,
                  discoveries, evalCalls, result, err>>

----------------------------------------------------------------------------
(* Bounds and input alphabets *)

\* the longest array handed to _setdiff2d
MaxRows == 3
\* the longest enumerated knowledge graph
MaxTriples == 2
\* seeds are 0..MaxSeed
MaxSeed == 1
\* the Evaluator's ranks are 1..MaxRank
MaxRank == 3

\* the entity identifiers, in the order np.unique sorts them
EntOrder == <<"a", "b", "c", "d", "e", "f">>

Range(s) == {s[i] : i \in DOMAIN s}

SeqsUpTo(S, n) == UNION {[1..k -> S] : k \in 0..n}

RECURSIVE SumSeq(_)
SumSeq(s) == IF s = <<>> THEN 0 ELSE s[1] + SumSeq(Tail(s))

----------------------------------------------------------------------------
(* _setdiff2d *)

\* an array: its number of dimensions and, when 2-dimensional, its rows
Array2(rows) == [ndim |-> 2, rows |-> rows]

\* tmp[i][j] = np.prod(A[i] == B[j]): 1 when row i of A equals row j of B on
\* every field, else 0
SetdiffTmp(a, b) ==
    [i \in DOMAIN a |->
        [j \in DOMAIN b |->
            IF \A k \in DOMAIN a[i] : a[i][k] = b[j][k] THEN 1 ELSE 0]]

\* np.cumsum(tmp, axis=0): down the rows of A, per row of B
SetdiffCumsum(tmp, a, b) ==
    [i \in DOMAIN a |->
        [j \in DOMAIN b |-> SumSeq([i2 \in 1..i |-> tmp[i2][j]])]]

\* the mask np.sum(cumsum * tmp == 1, axis=1).astype(bool), then A[~mask]
Setdiff2dRows(a, b) ==
    LET tmp == SetdiffTmp(a, b)
        cum == SetdiffCumsum(tmp, a, b)
        mask(i) == SumSeq([j \in DOMAIN b |->
                              IF cum[i][j] * tmp[i][j] = 1 THEN 1 ELSE 0]) # 0
        idx == SelectSeq([i \in DOMAIN a |-> i], LAMBDA i : ~mask(i))
    IN  [n \in DOMAIN idx |-> a[idx[n]]]

\* the call: RuntimeError unless both arguments are 2-dimensional
Setdiff2d(a, b) ==
    IF a.ndim # 2 \/ b.ndim # 2
    THEN [raised |-> "ShapeError", rows |-> <<>>]
    ELSE [raised |-> "none", rows |-> Setdiff2dRows(a.rows, b.rows)]

----------------------------------------------------------------------------
(* numpy and Python helpers used by generate_candidates *)

\* np.unique of a sequence of entity identifiers: the distinct ones, sorted
Unique(s) == SelectSeq(EntOrder, LAMBDA e : e \in Range(s))

Column(Xg, k) == [i \in DOMAIN Xg |-> Xg[i][k]]

\* int(np.sqrt(n)) for n >= 0
ISqrt(n) == CHOOSE k \in 0..n : k * k <= n /\ n < (k + 1) * (k + 1)

\* str(n) of an int n >= 0, as its decimal digits
RECURSIVE StrInt(_)
StrInt(n) == IF n < 10 THEN <<n>> ELSE Append(StrInt(n \div 10), n % 10)

\* the first d decimals of num/den (0 <= num/den), by long division
RECURSIVE Decimals(_, _, _)
Decimals(num, den, d) ==
    IF d = 0 THEN <<>>
    ELSE <<(10 * num) \div den>> \o Decimals((10 * num) % den, den, d - 1)

RECURSIVE StripZeros(_)
StripZeros(ds) ==
    IF Len(ds) > 1 /\ ds[Len(ds)] = 0 THEN StripZeros(SubSeq(ds, 1, Len(ds) - 1))
    ELSE ds

\* str(num/den) of a float: integer part, the point (-1 sorts before every
\* digit, as '.' does), then the decimals; six decimals tell apart every two
\* values the graphs here produce
StrFloat(num, den) ==
    StrInt(num \div den) \o <<-1>> \o StripZeros(Decimals(num % den, den, 6))

\* a metric value as numpy stores it beside a string identifier: its str()
StrValue(v) == IF v.float THEN StrFloat(v.num, v.den) ELSE StrInt(v.num)

IntValue(n) == [float |-> FALSE, num |-> n, den |-> 1]

\* the order of two strings in an array of dtype <U
RECURSIVE StrLess(_, _)
StrLess(s, t) ==
    IF t = <<>> THEN FALSE
    ELSE IF s = <<>> THEN TRUE
    ELSE IF s[1] # t[1] THEN s[1] < t[1]
    ELSE StrLess(Tail(s), Tail(t))

\* rows[:, 1].argsort() then rows[order]: numpy sorts arrays this short by
\* insertion, which keeps equal keys in their order; rows are <<entity, key>>
RECURSIVE InsertRow(_, _)
InsertRow(sorted, row) ==
    IF sorted = <<>> THEN <<row>>
    ELSE IF StrLess(row[2], sorted[Len(sorted)][2])
         THEN Append(InsertRow(SubSeq(sorted, 1, Len(sorted) - 1), row),
                     sorted[Len(sorted)])
         ELSE Append(sorted, row)

RECURSIVE ArgsortRows(_)
ArgsortRows(rows) ==
    IF rows = <<>> THEN <<>>
    ELSE InsertRow(ArgsortRows(SubSeq(rows, 1, Len(rows) - 1)), rows[Len(rows)])

\* rows[0:n, 0] for an int n > 0
HeadEntities(rows, n) ==
    [i \in 1..(IF n < Len(rows) THEN n ELSE Len(rows)) |-> rows[i][1]]

\* np.array(np.meshgrid(sample_e_s, target_rel, sample_e_o)).T.reshape(-1, 3):
\* the objects vary slowest, the subjects fastest
Meshgrid(es, rel, eo) ==
    [n \in 1..(Len(es) * Len(eo)) |->
        <<es[((n - 1) % Len(es)) + 1], rel, eo[((n - 1) \div Len(es)) + 1]>>]

----------------------------------------------------------------------------
(* np.random: the process-wide generator, as a small congruential one *)

RngStates == 0..15

\* np.random.seed(seed)
RngSeed(s) == (7 * s + 1) % 16

RngNext(r) == (5 * r + 3) % 16

RemoveAt(s, i) == SubSeq(s, 1, i - 1) \o SubSeq(s, i + 1, Len(s))

RECURSIVE RngDraw(_, _, _, _)
RngDraw(r, remaining, k, acc) ==
    IF k = 0 THEN [raised |-> "none", sample |-> acc, rng |-> r]
    ELSE LET i == (r % Len(remaining)) + 1
         IN  RngDraw(RngNext(r), RemoveAt(remaining, i), k - 1,
                     Append(acc, remaining[i]))

\* np.random.choice(pool, size=k, replace=False): ValueError when k exceeds
\* the population
RngChoice(r, pool, k) ==
    IF k > Len(pool)
    THEN [raised |-> "SampleTooLarge", sample |-> <<>>, rng |-> r]
    ELSE RngDraw(r, pool, k, <<>>)

----------------------------------------------------------------------------
(* The graph metrics (networkx), computed as nx.Graph computes them *)

\* G.add_nodes_from([row[0], row[2]]) row by row: the nodes in insertion order
RECURSIVE GraphNodes(_)
GraphNodes(Xg) ==
    IF Xg = <<>> THEN <<>>
    ELSE LET before == GraphNodes(SubSeq(Xg, 1, Len(Xg) - 1))
             row == Xg[Len(Xg)]
             withS == IF row[1] \in Range(before) THEN before
                      ELSE Append(before, row[1])
         IN  IF row[3] \in Range(withS) THEN withS ELSE Append(withS, row[3])

\* G[v]: the neighbours of v in the undirected graph (v itself on a self-loop)
Nbrs(Xg, v) ==
    {Xg[i][3] : i \in {i \in DOMAIN Xg : Xg[i][1] = v}}
        \cup {Xg[i][1] : i \in {i \in DOMAIN Xg : Xg[i][3] = v}}

\* the sum of f over its domain S
RECURSIVE SumOver(_, _)
SumOver(S, f) ==
    IF S = {} THEN 0
    ELSE LET x == CHOOSE x \in S : TRUE IN f[x] + SumOver(S \ {x}, f)

\* G.degree(): a self-loop counts twice
GraphDegree(Xg, v) ==
    IntValue(Cardinality(Nbrs(Xg, v)) + (IF v \in Nbrs(Xg, v) THEN 1 ELSE 0))

\* twice the number of triangles through v, self-loops left out
TwiceTriangles(Xg, v) ==
    LET vs == Nbrs(Xg, v) \ {v}
    IN  Cardinality({p \in vs \X vs : p[2] \in (Nbrs(Xg, p[1]) \ {p[1]})})

\* nx.triangles
ClusterTriangles(Xg, v) == IntValue(TwiceTriangles(Xg, v) \div 2)

\* nx.clustering: 0 if t == 0 else t / (d * (d - 1))
ClusterCoefficient(Xg, v) ==
    LET t == TwiceTriangles(Xg, v)
        d == Cardinality(Nbrs(Xg, v) \ {v})
    IN  IF t = 0 THEN IntValue(0)
        ELSE [float |-> TRUE, num |-> t, den |-> d * (d - 1)]

\* nx.square_clustering
ClusterSquares(Xg, v) ==
    LET pairs == {p \in SUBSET Nbrs(Xg, v) : Cardinality(p) = 2}
        first(p) == CHOOSE u \in p : TRUE
        second(p) == CHOOSE w \in p : w # first(p)
        squares(p) ==
            Cardinality((Nbrs(Xg, first(p)) \cap Nbrs(Xg, second(p))) \ {v})
        degm(p) == squares(p) + 1
                     + (IF second(p) \in Nbrs(Xg, first(p)) THEN 1 ELSE 0)
        pot(p) == (Cardinality(Nbrs(Xg, first(p))) - degm(p))
                    + (Cardinality(Nbrs(Xg, second(p))) - degm(p)) + squares(p)
        clustering == SumOver(pairs, [p \in pairs |-> squares(p)])
        potential == SumOver(pairs, [p \in pairs |-> pot(p)])
    IN  IF potential > 0
        THEN [float |-> TRUE, num |-> clustering, den |-> potential]
        ELSE IntValue(clustering)

MetricStrategies ==
    {"graph_degree", "cluster_coefficient", "cluster_triangles", "cluster_squares"}

\* the node metric C of the strategy
NodeMetric(strat, Xg, v) ==
    CASE strat = "graph_degree" -> GraphDegree(Xg, v)
      [] strat = "cluster_coefficient" -> ClusterCoefficient(Xg, v)
      [] strat = "cluster_triangles" -> ClusterTriangles(Xg, v)
      [] strat = "cluster_squares" -> ClusterSquares(Xg, v)

\* np.array([[k, v] for k, v in C.items()]): beside a string identifier the
\* value is stored as its str()
MetricRows(strat, Xg) ==
    LET nodes == GraphNodes(Xg)
    IN  [i \in DOMAIN nodes |-> <<nodes[i], StrValue(NodeMetric(strat, Xg, nodes[i]))>>]

\* how often e occurs as subject or object
EntityCount(Xg, e) ==
    Cardinality({i \in DOMAIN Xg : Xg[i][1] = e})
        + Cardinality({i \in DOMAIN Xg : Xg[i][3] = e})

\* np.array(np.unique(X[:, [0, 2]], return_counts=True)).T: the counts are
\* stored as their str() beside the string identifiers
EntCountRows(Xg) ==
    LET ents == Unique(Column(Xg, 1) \o Column(Xg, 3))
    IN  [i \in DOMAIN ents |-> <<ents[i], StrInt(EntityCount(Xg, ents[i]))>>]

----------------------------------------------------------------------------
(* generate_candidates *)

Strategies ==
    {"random_uniform", "exhaustive", "entity_frequency", "graph_degree",
     "cluster_coefficient", "cluster_triangles", "cluster_squares"}

\* max_candidates is an int (num, den = 1), a float (num/den) or of another type
IntParam(n) == [type |-> "int", num |-> n, den |-> 1]
FloatParam(n, d) == [type |-> "float", num |-> n, den |-> d]
StrParam == [type |-> "str", num |-> 0, den |-> 1]

\* _max_candidates
MaxCandidatesCap(maxc, Xg) ==
    IF maxc.type = "float" THEN (maxc.num * Len(Xg)) \div maxc.den ELSE maxc.num

\* e_s and e_o
SubjectPool(Xg, cons) ==
    IF cons THEN Unique(Column(Xg, 1) \o Column(Xg, 3)) ELSE Unique(Column(Xg, 1))

ObjectPool(Xg, cons) ==
    IF cons THEN Unique(Column(Xg, 1) \o Column(Xg, 3)) ELSE Unique(Column(Xg, 3))

\* the filter without the set difference against the graph
FilterCandidatesLoopsOnly(X_candidates, Xg) ==
    SelectSeq(X_candidates, LAMBDA t : t[1] # t[3])

\* _filter_candidates
FilterCandidates(X_candidates, Xg) ==
    LET diff == Setdiff2d(Array2(X_candidates), Array2(Xg)).rows
    IN  SelectSeq(diff, LAMBDA t : t[1] # t[3])

\* what one run of the generator's body ends in: a yield, a raise or its return
GenYield(batch, r, pool, ss, so) ==
    [kind |-> "yield", batch |-> batch, raised |-> "none", rng |-> r,
     pool |-> pool, sample_e_s |-> ss, sample_e_o |-> so]
GenRaise(e, r) ==
    [kind |-> "raise", batch |-> <<>>, raised |-> e, rng |-> r,
     pool |-> <<>>, sample_e_s |-> <<>>, sample_e_o |-> <<>>]
GenReturn(r) ==
    [kind |-> "return", batch |-> <<>>, raised |-> "none", rng |-> r,
     pool |-> <<>>, sample_e_s |-> <<>>, sample_e_o |-> <<>>]

\* the batch of the n-th subject of the exhaustive strategy
ExhaustiveBatch(Xg, rel, cons, n) ==
    FilterCandidates(Meshgrid(<<SubjectPool(Xg, cons)[n]>>, rel, ObjectPool(Xg, cons)), Xg)

\* the cross product of the two samples, filtered and yielded, unless one of
\* the two np.random.choice calls raised
SampledYield(Xg, rel, pool, cs, co) ==
    IF cs.raised # "none" THEN GenRaise(cs.raised, cs.rng)
    ELSE IF co.raised # "none" THEN GenRaise(co.raised, co.rng)
    ELSE GenYield(FilterCandidates(Meshgrid(cs.sample, rel, co.sample), Xg),
                  co.rng, pool, cs.sample, co.sample)

\* the second np.random.choice call, from where the first left np.random
SampledObjects(Xg, rel, poolO, pool, sample_size, cs) ==
    SampledYield(Xg, rel, pool, cs, RngChoice(cs.rng, poolO, sample_size))

\* two np.random.choice calls, the cross product, the filter, the yield
SampledBatch(Xg, rel, poolS, poolO, pool, sample_size, r) ==
    SampledObjects(Xg, rel, poolO, pool, sample_size,
                   RngChoice(r, poolS, sample_size))

\* the second _filter_candidates of the 'entity_frequency' branch
FilterAgain(out, Xg) ==
    IF out.kind = "yield"
    THEN [out EXCEPT !.batch = FilterCandidates(out.batch, Xg)]
    ELSE out

SampledFromPool(Xg, rel, pool, sample_size, r) ==
    SampledBatch(Xg, rel, pool, pool, pool, sample_size, r)

\* the branch of strategy 'entity_frequency': the slice is by max_candidates
\* itself, and a float is no slice index
EntityFrequencyBranch(Xg, rel, maxc, sample_size, r) ==
    IF maxc.type = "float" THEN GenRaise("TypeError", r)
    ELSE FilterAgain(
             SampledFromPool(Xg, rel,
                             HeadEntities(ArgsortRows(EntCountRows(Xg)), maxc.num),
                             sample_size, r),
             Xg)

\* the branch of the four graph-metric strategies; C[:, 1] of the array of an
\* empty graph is an IndexError
GraphMetricBranch(Xg, strat, rel, maxc, sample_size, r) ==
    IF Xg = <<>> THEN GenRaise("IndexError", r)
    ELSE IF maxc.type = "float" THEN GenRaise("TypeError", r)
    ELSE SampledFromPool(Xg, rel,
                         HeadEntities(ArgsortRows(MetricRows(strat, Xg)), maxc.num),
                         sample_size, r)

\* the seeding left out: np.random stays as the caller left it
GenSeedSkipped(sd, r) == r

\* the seeding of np.random inside generate_candidates
GenSeed(sd, r) == RngSeed(sd)

\* the branch of the strategy, with np.random seeded (r0)
GenDispatch(Xg, strat, rel, maxc, cons, sample_size, r0) ==
    CASE strat = "exhaustive" ->
            IF SubjectPool(Xg, cons) = <<>> THEN GenReturn(r0)
            ELSE GenYield(ExhaustiveBatch(Xg, rel, cons, 1), r0, <<>>, <<>>, <<>>)
      [] strat = "random_uniform" ->
            SampledBatch(Xg, rel, SubjectPool(Xg, cons), ObjectPool(Xg, cons),
                         <<>>, sample_size, r0)
      [] strat = "entity_frequency" ->
            EntityFrequencyBranch(Xg, rel, maxc, sample_size, r0)
      [] strat \in MetricStrategies ->
            GraphMetricBranch(Xg, strat, rel, maxc, sample_size, r0)

\* the body from its entry to its first yield, raise or return
GenBody(Xg, strat, rel, maxc, cons, sd, r) ==
    IF strat \notin Strategies THEN GenRaise("InvalidStrategy", r)
    ELSE IF maxc.type \notin {"float", "int"} THEN GenRaise("InvalidParameter", r)
    ELSE IF maxc.num <= 0 THEN GenRaise("InvalidParameter", r)
    ELSE GenDispatch(Xg, strat, rel, maxc, cons,
                     ISqrt(MaxCandidatesCap(maxc, Xg)), GenSeed(sd, r))

\* the loop over the subjects ending one subject early
GenResumeStopsEarly(Xg, strat, rel, cons, idx, r) ==
    IF strat = "exhaustive" /\ idx + 1 < Len(SubjectPool(Xg, cons))
    THEN GenYield(ExhaustiveBatch(Xg, rel, cons, idx + 1), r, <<>>, <<>>, <<>>)
    ELSE GenReturn(r)

\* the body resumed after a yield: the next subject of 'exhaustive', else return
GenResume(Xg, strat, rel, cons, idx, r) ==
    IF strat = "exhaustive" /\ idx < Len(SubjectPool(Xg, cons))
    THEN GenYield(ExhaustiveBatch(Xg, rel, cons, idx + 1), r, <<>>, <<>>, <<>>)
    ELSE GenReturn(r)

\* a generator object: nothing of the body has run when it is created
\* (entrySeeded records whether np.random, when the body was entered, was
\* already in the state the seed gives)
NewGenerator ==
    [pc |-> "created", idx |-> 0, yields |-> <<>>, raised |-> "none",
     pool |-> <<>>, sample_e_s |-> <<>>, sample_e_o |-> <<>>, entrySeeded |-> FALSE]

\* the generator object after a run of its body ended in out
GenAfter(g, out, entry) ==
    CASE out.kind = "yield" ->
            [g EXCEPT !.pc = "suspended", !.idx = g.idx + 1,
                      !.yields = Append(g.yields, out.batch),
                      !.pool = out.pool, !.sample_e_s = out.sample_e_s,
                      !.sample_e_o = out.sample_e_o, !.entrySeeded = entry]
      [] out.kind = "raise" ->
            [g EXCEPT !.pc = "raised", !.raised = out.raised, !.entrySeeded = entry]
      [] out.kind = "return" ->
            [g EXCEPT !.pc = "done", !.entrySeeded = entry]

GenOutcome(g, out, entry) == [rng |-> out.rng, g |-> GenAfter(g, out, entry)]

\* one pull (next()) of generator g with np.random in state r
GenPull(g, Xg, strat, rel, maxc, cons, sd, r) ==
    IF g.pc = "created"
    THEN GenOutcome(g, GenBody(Xg, strat, rel, maxc, cons, sd, r), r = RngSeed(sd))
    ELSE GenOutcome(g, GenResume(Xg, strat, rel, cons, g.idx, r), g.entrySeeded)

----------------------------------------------------------------------------
(* discover_facts *)

\* every strategy of generate_candidates let through
DiscoverStrategiesAll ==
    {"random_uniform", "exhaustive", "entity_frequency", "graph_degree",
     "cluster_coefficient", "cluster_triangles", "cluster_squares"}

\* the strategies discover_facts lets through
DiscoverStrategies == {"exhaustive", "random_uniform"}

\* filter_unseen_entities (ampligraph.evaluation): the triples whose subject
\* and object the model knows
FilterUnseenEntities(Xg, m) ==
    SelectSeq(Xg, LAMBDA t : t[1] \in m.ents /\ t[3] \in m.ents)

\* evaluate_performance (ampligraph.evaluation) under the default protocol:
\* for n candidates some vector of 2n ranks, the subject-corruption ranks first
RankVectors(n) == [1..(2 * n) -> 1..MaxRank]

\* the ranks averaged in adjacent pairs instead of half against half
TwiceAvgRanksAdjacent(rv) ==
    [i \in 1..(Len(rv) \div 2) |-> rv[2 * i - 1] + rv[2 * i]]

\* twice np.mean([s_corruption_ranks, o_corruption_ranks], axis=0): the mean
\* itself is a half-integer, so the model keeps its double
TwiceAvgRanks(rv) ==
    LET num_ranks == Len(rv) \div 2
        s_corruption_ranks == SubSeq(rv, 1, num_ranks)
        o_corruption_ranks == SubSeq(rv, num_ranks + 1, Len(rv))
    IN  [i \in 1..num_ranks |-> s_corruption_ranks[i] + o_corruption_ranks[i]]

\* preds = avg_ranks >= top_n
Preds(rv, n) ==
    LET avg2 == TwiceAvgRanks(rv) IN [i \in DOMAIN avg2 |-> avg2[i] >= 2 * n]

\* candidates[preds]
SelectByMask(rows, mask) ==
    LET idx == SelectSeq([i \in DOMAIN rows |-> i], LAMBDA i : mask[i])
    IN  [k \in DOMAIN idx |-> rows[idx[k]]]

\* np.hstack of a list of 2-dimensional arrays: they are joined along the
\* columns, so all must have the same number of rows, and the list must not
\* be empty
RECURSIVE JoinRows(_, _)
JoinRows(arrays, r) ==
    IF arrays = <<>> THEN <<>> ELSE arrays[1][r] \o JoinRows(Tail(arrays), r)

Hstack(arrays) ==
    IF arrays = <<>> THEN [raised |-> "HstackError", rows |-> <<>>]
    ELSE IF \E i \in DOMAIN arrays : Len(arrays[i]) # Len(arrays[1])
    THEN [raised |-> "HstackError", rows |-> <<>>]
    ELSE [raised |-> "none",
          rows |-> [r \in 1..Len(arrays[1]) |-> JoinRows(arrays, r)]]

----------------------------------------------------------------------------
(* The inputs *)

\* rows handed to _setdiff2d: they differ pairwise in one field or more
SetdiffRowSet ==
    {<<"a", "y", "b">>, <<"a", "y", "c">>, <<"b", "y", "a">>, <<"a", "z", "b">>}

Arrays ==
    {Array2(r) : r \in SeqsUpTo(SetdiffRowSet, MaxRows)}
        \cup {[ndim |-> 1, rows |-> <<>>]}

\* the graph of the docstrings and of the spec's end-to-end example
ExampleGraph ==
    <<<<"a", "y", "b">>, <<"b", "y", "a">>, <<"a", "y", "c">>, <<"c", "y", "a">>,
      <<"a", "y", "d">>, <<"c", "y", "d">>, <<"b", "y", "c">>, <<"f", "y", "e">>>>

\* a graph in which "a" occurs 10 times and every other entity twice
HubGraph ==
    <<<<"a", "y", "b">>, <<"b", "y", "a">>, <<"a", "y", "c">>, <<"c", "y", "a">>,
      <<"a", "y", "d">>, <<"d", "y", "a">>, <<"a", "y", "e">>, <<"e", "y", "a">>,
      <<"a", "y", "f">>, <<"f", "y", "a">>>>

SmallTriples ==
    {<<s, "y", o>> : s \in {"a", "b", "c"}, o \in {"a", "b", "c"}}
        \cup {<<"a", "z", "b">>}

Graphs == SeqsUpTo(SmallTriples, MaxTriples) \cup {ExampleGraph, HubGraph}

StrategyInputs == Strategies \cup {"bogus"}

TargetRels == {"y", "z"}

MaxCandidatesInputs ==
    {IntParam(0), IntParam(1), IntParam(4), FloatParam(-1, 2), FloatParam(1, 2),
     FloatParam(1, 1), StrParam}

Seeds == 0..MaxSeed

NoModel == [is_fitted |-> FALSE, rels |-> <<>>, ents |-> {}]

\* the variables of discover_facts while no call is under way
DiscoverIdle ==
    /\ pc = "idle"
    /\ X_filtered = <<>>
    /\ rel_list = <<>>
    /\ relation = 0
    /\ candidates = <<>>
    /\ ranks = <<>>
    /\ discoveries = <<>>
    /\ evalCalls = <<>>
    /\ result = <<>>
    /\ err = "none"

SetdiffIdle ==
    /\ A = Array2(<<>>)
    /\ B = Array2(<<>>)
    /\ sdCall = [pc |-> "idle", raised |-> "none", rows |-> <<>>]

----------------------------------------------------------------------------
(* Specification SpecSetdiff: calls of _setdiff2d *)

InitSetdiff ==
    /\ A \in Arrays
    /\ B \in Arrays
    /\ sdCall = [pc |-> "called", raised |-> "none", rows |-> <<>>]
    /\ X = <<>> /\ model = NoModel /\ top_n = 1 /\ strategy = "exhaustive"
    /\ max_candidates = IntParam(1) /\ target_rel = "y"
    /\ consolidate_sides = FALSE /\ seed = 0 /\ rng = 0
    /\ gen = [i \in 1..2 |-> NewGenerator]
    /\ DiscoverIdle

SetdiffReturn ==
    /\ sdCall.pc = "called"
    /\ LET out == Setdiff2d(A, B)
       IN  sdCall' = [pc |-> "returned", raised |-> out.raised, rows |-> out.rows]
    /\ UNCHANGED <<A, B, paramVars, rng, gen, discoverVars>>

NextSetdiff == SetdiffReturn

SpecSetdiff == InitSetdiff /\ [][NextSetdiff]_vars

----------------------------------------------------------------------------
(* Specification SpecGen: one generator of generate_candidates, pulled to   *)
(* its end                                                                  *)

InitGen ==
    /\ X \in Graphs
    /\ strategy \in StrategyInputs
    /\ target_rel \in TargetRels
    /\ max_candidates \in MaxCandidatesInputs
    /\ consolidate_sides \in BOOLEAN
    /\ seed \in Seeds
    /\ rng = 0
    /\ gen = [i \in 1..2 |-> NewGenerator]
    /\ model = NoModel /\ top_n = 1
    /\ SetdiffIdle
    /\ DiscoverIdle

\* generator i and np.random after a pull
PullResult(i, res) ==
    /\ gen' = [gen EXCEPT ![i] = res.g]
    /\ rng' = res.rng

\* next() on generator i
Pull(i) ==
    /\ gen[i].pc \in {"created", "suspended"}
    /\ PullResult(i, GenPull(gen[i], X, strategy, target_rel, max_candidates,
                             consolidate_sides, seed, rng))
    /\ UNCHANGED <<setdiffVars, paramVars, discoverVars>>

NextGen == Pull(1)

SpecGen == InitGen /\ [][NextGen]_vars

----------------------------------------------------------------------------
(* Specification SpecDet: two generators of a random strategy made with the *)
(* same arguments, their pulls interleaved with each other and with other   *)
(* uses of np.random                                                        *)

DetGraphs ==
    {ExampleGraph, HubGraph, <<>>, <<<<"a", "y", "b">>>>,
     <<<<"a", "y", "b">>, <<"b", "y", "c">>>>}

InitDet ==
    /\ X \in DetGraphs
    /\ strategy \in Strategies \ {"exhaustive"}
    /\ target_rel \in TargetRels
    /\ max_candidates \in {m \in MaxCandidatesInputs : m.type # "str" /\ m.num > 0}
    /\ consolidate_sides \in BOOLEAN
    /\ seed \in Seeds
    /\ rng \in RngStates
    /\ gen = [i \in 1..2 |-> NewGenerator]
    /\ model = NoModel /\ top_n = 1
    /\ SetdiffIdle
    /\ DiscoverIdle

\* any other code draws from np.random or reseeds it
OtherRandomUse ==
    /\ rng' \in ({RngNext(rng)} \cup {RngSeed(s) : s \in Seeds}) \ {rng}
    /\ UNCHANGED <<setdiffVars, paramVars, gen, discoverVars>>

NextDet == Pull(1) \/ Pull(2) \/ OtherRandomUse

SpecDet == InitDet /\ [][NextDet]_vars

----------------------------------------------------------------------------
(* Specification Spec: one call of discover_facts *)

AllEntities == Range(EntOrder)

\* the scoring models: whether fitted, rel_to_idx's keys in their order, and
\* the entities known
Models ==
    {[is_fitted |-> FALSE, rels |-> <<"y">>, ents |-> AllEntities],
     [is_fitted |-> TRUE, rels |-> <<"y", "z">>, ents |-> AllEntities \ {"c"}]}
        \cup {[is_fitted |-> TRUE, rels |-> r, ents |-> AllEntities] :
                 r \in {<<>>, <<"y">>, <<"y", "z">>, <<"z", "y">>}}

DiscoverGraphs ==
    {<<>>,
     <<<<"a", "y", "b">>>>,
     <<<<"a", "y", "b">>, <<"b", "y", "c">>>>,
     <<<<"a", "y", "b">>, <<"a", "z", "c">>>>,
     <<<<"a", "y", "b">>, <<"c", "y", "d">>>>}

DiscoverTargetRels == {"None", "y", "z"}

DiscoverMaxCandidates == {IntParam(0), IntParam(1), FloatParam(1, 2), StrParam}

TopNs == {2, 3}

Init ==
    /\ X \in DiscoverGraphs
    /\ model \in Models
    /\ top_n \in TopNs
    /\ strategy \in StrategyInputs
    /\ max_candidates \in DiscoverMaxCandidates
    /\ target_rel \in DiscoverTargetRels
    /\ consolidate_sides = FALSE
    /\ seed \in Seeds
    /\ rng = 0
    /\ gen = [i \in 1..2 |-> NewGenerator]
    /\ pc = "entry"
    /\ X_filtered = <<>>
    /\ rel_list = <<>>
    /\ relation = 0
    /\ candidates = <<>>
    /\ ranks = <<>>
    /\ discoveries = <<>>
    /\ evalCalls = <<>>
    /\ result = <<>>
    /\ err = "none"
    /\ SetdiffIdle

Raise(e) ==
    /\ pc' = "raised"
    /\ err' = e

\* from the entry to the loop over the relations: the validations, the seeding,
\* the filtering of unseen entities, the relation list
Validate ==
    /\ pc = "entry"
    /\ IF ~model.is_fitted THEN
           /\ Raise("ModelNotFitted")
           /\ UNCHANGED <<rng, X_filtered, rel_list>>
       ELSE IF strategy \notin DiscoverStrategies THEN
           /\ Raise("InvalidStrategy")
           /\ UNCHANGED <<rng, X_filtered, rel_list>>
       ELSE IF target_rel # "None" /\ target_rel \notin Range(model.rels) THEN
           /\ Raise("UnknownRelation")
           /\ UNCHANGED <<rng, X_filtered, rel_list>>
       ELSE
           /\ rng' = RngSeed(seed)
           /\ X_filtered' = FilterUnseenEntities(X, model)
           /\ rel_list' = IF target_rel = "None" THEN model.rels ELSE <<target_rel>>
           /\ pc' = "loop"
           /\ err' = err
    /\ UNCHANGED <<setdiffVars, paramVars, gen, relation, candidates, ranks,
                   discoveries, evalCalls, result>>

\* for relation in rel_list: the next relation's generator is made (not run)
NextRelation ==
    /\ pc = "loop"
    /\ relation < Len(rel_list)
    /\ relation' = relation + 1
    /\ gen' = [gen EXCEPT ![1] = NewGenerator]
    /\ pc' = "pull"
    /\ UNCHANGED <<setdiffVars, paramVars, rng, X_filtered, rel_list, candidates,
                   ranks, discoveries, evalCalls, result, err>>

\* what the loop does with the pull's outcome: a batch goes to the body, an
\* exception leaves discover_facts, the generator's end leaves the inner loop
PullCandidatesResult(res) ==
    /\ PullResult(1, res)
    /\ CASE res.g.pc = "suspended" ->
               /\ candidates' = res.g.yields[Len(res.g.yields)]
               /\ pc' = "evaluate"
               /\ err' = err
         [] res.g.pc = "raised" ->
               /\ Raise(res.g.raised)
               /\ candidates' = candidates
         [] res.g.pc = "done" ->
               /\ pc' = "loop"
               /\ err' = err
               /\ candidates' = candidates

\* for candidates in candidate_generator: one pull of the generator
PullCandidates ==
    /\ pc = "pull"
    /\ PullCandidatesResult(GenPull(gen[1], X_filtered, strategy, rel_list[relation],
                                    max_candidates, FALSE, seed, rng))
    /\ UNCHANGED <<setdiffVars, paramVars, X_filtered, rel_list, relation, ranks,
                   discoveries, evalCalls, result>>

\* the loop's body: the Evaluator is called with the batch, the two halves of
\* its ranks are averaged, and the candidates at or above top_n are appended
Evaluate ==
    /\ pc = "evaluate"
    /\ \E rv \in RankVectors(Len(candidates)) :
          /\ ranks' = rv
          /\ evalCalls' = Append(evalCalls, candidates)
          /\ discoveries' =
                Append(discoveries, SelectByMask(candidates, Preds(rv, top_n)))
    /\ pc' = "pull"
    /\ UNCHANGED <<setdiffVars, paramVars, rng, gen, X_filtered, rel_list,
                   relation, candidates, result, err>>

\* return np.hstack(discoveries)
Finish ==
    /\ pc = "loop"
    /\ relation = Len(rel_list)
    /\ LET out == Hstack(discoveries)
       IN  IF out.raised # "none"
           THEN Raise(out.raised) /\ result' = result
           ELSE pc' = "returned" /\ result' = out.rows /\ err' = err
    /\ UNCHANGED <<setdiffVars, paramVars, rng, gen, X_filtered, rel_list,
                   relation, candidates, ranks, discoveries, evalCalls>>

Next == Validate \/ NextRelation \/ PullCandidates \/ Evaluate \/ Finish

Spec == Init /\ [][Next]_vars

----------------------------------------------------------------------------
(* Claims about _setdiff2d and generate_candidates *)

\* C1: for 2-dimensional A and B, _setdiff2d(A, B) is exactly the rows of A
\* that equal no row of B, in their order: every occurrence of a row of A that
\* appears in B is removed (so A within B, or A = B, gives the empty result).
C1_SetdiffRemovesEveryOccurrence ==
    (sdCall.pc = "returned" /\ A.ndim = 2 /\ B.ndim = 2) =>
        /\ sdCall.raised = "none"
        /\ sdCall.rows = SelectSeq(A.rows, LAMBDA row : row \notin Range(B.rows))

\* the generator under observation in SpecGen
g1 == gen[1]

ValidMaxCandidates ==
    /\ max_candidates.type \in {"int", "float"}
    /\ max_candidates.num > 0
    /\ max_candidates.type = "float" => max_candidates.num <= max_candidates.den

\* C4: every triple of every yielded batch has the target relation, is not a
\* triple of the graph, and has subject # object.
C4_BatchInvariants ==
    \A n \in DOMAIN g1.yields :
        \A i \in DOMAIN g1.yields[n] :
            LET t == g1.yields[n][i]
            IN  /\ Len(t) = 3
                /\ t[2] = target_rel
                /\ t \notin Range(X)
                /\ t[1] # t[3]

\* a sampled strategy yielded a non-empty batch although its cross product
\* held a triple of the graph and a self-loop
C4_Witness ==
    /\ strategy \in Strategies \ {"exhaustive"}
    /\ g1.pc = "suspended"
    /\ g1.yields[1] # <<>>
    /\ \E s \in Range(g1.sample_e_s), o \in Range(g1.sample_e_o) :
            <<s, target_rel, o>> \in Range(X)
    /\ Range(g1.sample_e_s) \cap Range(g1.sample_e_o) # {}

\* the pools and batches of the exhaustive strategy, stated over sets
C5_Subjects ==
    IF consolidate_sides
    THEN {X[i][1] : i \in DOMAIN X} \cup {X[i][3] : i \in DOMAIN X}
    ELSE {X[i][1] : i \in DOMAIN X}

C5_Objects ==
    IF consolidate_sides
    THEN {X[i][1] : i \in DOMAIN X} \cup {X[i][3] : i \in DOMAIN X}
    ELSE {X[i][3] : i \in DOMAIN X}

C5_SubjectOrder == SelectSeq(EntOrder, LAMBDA e : e \in C5_Subjects)

C5_Expected(e) ==
    ({<<e, target_rel, o>> : o \in C5_Objects} \ Range(X)) \ {<<e, target_rel, e>>}

\* C5: 'exhaustive' yields one batch per subject-pool entity, in pool order,
\* then ends; the batch of subject e is {e} x {target_rel} x (object pool)
\* minus the graph minus (e, target_rel, e); on the example graph the batch of
\* 'a' is {(a,y,e)} and that of 'f' is {(f,y,a),(f,y,b),(f,y,c),(f,y,d)}.
C5_ExhaustiveBatches ==
    (strategy = "exhaustive" /\ ValidMaxCandidates) =>
        /\ g1.pc # "raised"
        /\ Len(g1.yields) <= Len(C5_SubjectOrder)
        /\ g1.pc = "done" => Len(g1.yields) = Len(C5_SubjectOrder)
        /\ \A n \in DOMAIN g1.yields :
              /\ Range(g1.yields[n]) = C5_Expected(C5_SubjectOrder[n])
              /\ Len(g1.yields[n]) = Cardinality(Range(g1.yields[n]))
        /\ (X = ExampleGraph /\ target_rel = "y" /\ ~consolidate_sides
                /\ g1.pc = "done") =>
              /\ Len(g1.yields) = 4
              /\ Range(g1.yields[1]) = {<<"a", "y", "e">>}
              /\ Range(g1.yields[4]) =
                    {<<"f", "y", "a">>, <<"f", "y", "b">>, <<"f", "y", "c">>,
                     <<"f", "y", "d">>}

C5_Witness ==
    /\ strategy = "exhaustive" /\ ValidMaxCandidates
    /\ X = ExampleGraph /\ target_rel = "y" /\ ~consolidate_sides
    /\ g1.pc = "done"
    /\ g1.yields[1] = <<<<"a", "y", "e">>>>
    /\ Len(g1.yields[4]) = 4

\* C6: a strategy other than 'exhaustive', on inputs that pass the
\* preconditions, yields exactly one batch and then ends, without raising.
C6_OneBatchNoRaise ==
    (strategy \in Strategies \ {"exhaustive"} /\ ValidMaxCandidates) =>
        /\ g1.pc # "raised"
        /\ g1.pc = "suspended" => Len(g1.yields) = 1
        /\ g1.pc = "done" => Len(g1.yields) = 1

\* the occurrence count or metric value of e, as a number num/den
C8_Value(e) ==
    IF strategy = "entity_frequency" THEN IntValue(EntityCount(X, e))
    ELSE NodeMetric(strategy, X, e)

C8_Lower(v, w) == v.num * w.den < w.num * v.den

\* C8: 'entity_frequency' and the graph-metric strategies sample subjects and
\* objects only from a restricted pool of at most cap entities, and no entity
\* left out of the pool has a strictly lower count (metric value), compared
\* as numbers, than one in it.
C8_LowestPool ==
    (strategy \in {"entity_frequency"} \cup MetricStrategies
        /\ ValidMaxCandidates /\ g1.pc = "suspended") =>
        /\ Len(g1.pool) <= MaxCandidatesCap(max_candidates, X)
        /\ Range(g1.sample_e_s) \subseteq Range(g1.pool)
        /\ Range(g1.sample_e_o) \subseteq Range(g1.pool)
        /\ \A t \in Range(g1.yields[1]) : t[1] \in Range(g1.pool) /\ t[3] \in Range(g1.pool)
        /\ \A e \in Range(GraphNodes(X)) \ Range(g1.pool) :
              \A p \in Range(g1.pool) : ~C8_Lower(C8_Value(e), C8_Value(p))

\* C10: two generators of a random strategy made with the same graph,
\* strategy, relation, max_candidates, consolidate_sides and seed yield the
\* same batches (and fail alike), whatever np.random held before each first
\* pull and however the pulls interleave with each other and with other uses.
C10_SameSeedSameBatches ==
    (gen[1].pc # "created" /\ gen[2].pc # "created") =>
        /\ gen[1].raised = gen[2].raised
        /\ \A n \in DOMAIN gen[1].yields \cap DOMAIN gen[2].yields :
              gen[1].yields[n] = gen[2].yields[n]
        /\ gen[1].sample_e_s = gen[2].sample_e_s
        /\ gen[1].sample_e_o = gen[2].sample_e_o

\* both generators yielded the same non-empty batch although np.random was in
\* different states when each was first pulled (one found it as the seed leaves
\* it, the other did not)
C10_Witness ==
    /\ gen[1].pc = "suspended" /\ gen[2].pc = "suspended"
    /\ gen[1].entrySeeded # gen[2].entrySeeded
    /\ gen[1].yields[1] # <<>>
    /\ Len(gen[1].sample_e_s) >= 2
    /\ gen[1].yields = gen[2].yields

----------------------------------------------------------------------------
(* Claims about discover_facts *)

RECURSIVE ConcatAll(_)
ConcatAll(arrays) ==
    IF arrays = <<>> THEN <<>> ELSE arrays[1] \o ConcatAll(Tail(arrays))

\* C2: what a successful call returns is an array of 3-field triples: the
\* accepted candidates of every evaluated batch, one after the other in
\* relation and then batch order.
C2_ResultIsConcatenation ==
    pc = "returned" =>
        /\ \A i \in DOMAIN result : Len(result[i]) = 3
        /\ result = ConcatAll(discoveries)

C7_RejectsOnlyUnrecognized ==
    (pc # "entry" /\ model.is_fitted) =>
        ((err = "InvalidStrategy") <=> (strategy \notin Strategies))

\* C7 as amended: with a fitted model, discover_facts fails with
\* InvalidStrategy iff the strategy is neither 'exhaustive' nor
\* 'random_uniform'; the five other strategies of generate_candidates are
\* refused.
C7_AcceptsTwoStrategies ==
    (pc # "entry" /\ model.is_fitted) =>
        ((err = "InvalidStrategy")
            <=> (strategy \notin {"exhaustive", "random_uniform"}))

C7_Witness ==
    /\ model.is_fitted
    /\ strategy = "entity_frequency"
    /\ pc = "raised"
    /\ err = "InvalidStrategy"

\* C9: a call with an invalid max_candidates (not positive, or no number)
\* whose other arguments are valid fails with InvalidParameter, with no batch
\* generated and no Evaluator call before.
C9_InvalidMaxFailsFirst ==
    (/\ model.is_fitted
     /\ strategy \in {"exhaustive", "random_uniform"}
     /\ (target_rel = "None" \/ target_rel \in Range(model.rels))
     /\ (max_candidates.type \notin {"int", "float"} \/ max_candidates.num <= 0)) =>
        /\ evalCalls = <<>>
        /\ gen[1].yields = <<>>
        /\ pc # "returned"
        /\ pc = "raised" => err = "InvalidParameter"

\* C11: during a call of discover_facts the Evaluator is invoked only with
\* non-empty batches: a batch of zero rows yielded by the generator (e.g. the
\* exhaustive batch of a subject whose whole cross product is in the graph or
\* is a self-loop) causes no Evaluator call.
C11_EvaluatorOnlyNonEmpty ==
    \A i \in DOMAIN evalCalls : evalCalls[i] # <<>>

====
